---------------------------- MODULE Spec2Model ----------------------------
(***************************************************************************)
(* A model of wenuclient.py: the Client (gateway) that discovers the       *)
(* resources of an Eve server and spawns one Entity subclass per resource, *)
(* and the Entity instances that create, update and delete rows through    *)
(* it.  The Eve server is not part of the repository; it is modelled as    *)
(* the environment (a row store with fresh _id and _etag values, the       *)
(* If-Match precondition, and transient failures).                         *)
(*                                                                         *)
(* Python dictionaries are functions with a finite domain of strings.      *)
(* Python's None, where the code passes it, is the empty sequence and a    *)
(* present value v is <<v>>.  Resource titles are sequences of one         *)
(* character strings, because the client normalises them character by      *)
(* character.                                                              *)
(***************************************************************************)
EXTENDS Integers, Sequences, FiniteSets, TLC

VARIABLES
    rows,        \* server: id -> <<>> (no such row) or <<[link, data, etag]>>
    nextId,      \* server: the next _id it assigns
    nextEtag,    \* server: the next _etag it issues
    if_match,    \* server configuration: a write without If-Match is refused
    inst,        \* per caller: the Entity instance it holds, <<>> or <<[cls, d]>>
    gen,         \* per caller: the generator where()/embedded() returned
    pend,        \* per caller: Client.delete between its GET and its DELETE
    last,        \* the last call made: caller, arguments, outcome, requests
    prev,        \* the caller, name and outcome of the call before it
    nops,        \* number of calls made so far
    discovery,   \* the server's answer to GET <url> (resource discovery)
    entities,    \* Client.entities, <<>> before construction
    resolved     \* the result of the last Client.__getattr__

vars == <<rows, nextId, nextEtag, if_match, inst, gen, pend, last, prev, nops,
          discovery, entities, resolved>>

crudVars == <<rows, nextId, nextEtag, if_match, inst, gen, pend, last, prev, nops>>

-----------------------------------------------------------------------------
(* Bounds *)

\* calls the callers make in all
MaxOps == 3
\* rows the server ever holds (ids 1..MaxRows)
MaxRows == 2
\* resources the discovery response lists
MaxChildren == 2

Callers == {"c1", "c2"}

-----------------------------------------------------------------------------
(* Dictionaries *)

EmptyDict == [k \in {} |-> 0]

\* dict.update(other): other's entries override
dict_update(d, other) ==
    [k \in DOMAIN d \cup DOMAIN other |-> IF k \in DOMAIN other THEN other[k] ELSE d[k]]

\* dict.get(key, None)
dict_get(d, key) == IF key \in DOMAIN d THEN <<d[key]>> ELSE <<>>

\* d[key] = val on a dictionary
dict_set(d, key, val) == [k \in DOMAIN d \cup {key} |-> IF k = key THEN val ELSE d[k]]

-----------------------------------------------------------------------------
(* str.title() and str.replace('_', '') on titles *)

LowerCase == <<"a","b","c","d","e","f","g","h","i","j","k","l","m",
               "n","o","p","q","r","s","t","u","v","w","x","y","z">>
UpperCase == <<"A","B","C","D","E","F","G","H","I","J","K","L","M",
               "N","O","P","Q","R","S","T","U","V","W","X","Y","Z">>

IndexIn(ch, table) == CHOOSE i \in 1..Len(table) : table[i] = ch

IsLower(ch) == \E i \in 1..Len(LowerCase) : LowerCase[i] = ch
IsUpper(ch) == \E i \in 1..Len(UpperCase) : UpperCase[i] = ch
IsCased(ch) == IsLower(ch) \/ IsUpper(ch)

ToUpper(ch) == IF IsLower(ch) THEN UpperCase[IndexIn(ch, LowerCase)] ELSE ch
ToLower(ch) == IF IsUpper(ch) THEN LowerCase[IndexIn(ch, UpperCase)] ELSE ch

\* str.title(): a cased character is upper-cased when the character before it
\* is not cased (or there is none), and lower-cased otherwise
str_title(s) ==
    [i \in 1..Len(s) |->
        IF i > 1 /\ IsCased(s[i-1]) THEN ToLower(s[i]) ELSE ToUpper(s[i])]

IsNotUnderscore(ch) == ch # "_"

\* str.replace('_', '')
str_strip_underscores(s) == SelectSeq(s, IsNotUnderscore)

\* child['title'].title().replace('_', '')
normalize_title(title) == str_strip_underscores(str_title(title))

-----------------------------------------------------------------------------
(* Resource discovery: Client.__init__, Client._spawn_entities,            *)
(* Entity.spawn_subclass, Client.__getattr__                               *)

\* extra_entities of Client.__init__: {u'title': u'Measurement', u'href': u'measurement'}
extra_entities ==
    << [title |-> <<"M","e","a","s","u","r","e","m","e","n","t">>,
        href  |-> "measurement"] >>

\* The names under which the callers of the model look resources up
Mote        == <<"M","o","t","e">>
MoteLevel   == <<"M","o","t","e","L","e","v","e","l">>
Measurement == <<"M","e","a","s","u","r","e","m","e","n","t">>

\* The {title, href} entries a discovery response may list
ResourceDescriptors ==
    { [title |-> <<"m","o","t","e">>, href |-> "mote"],
      [title |-> <<"M","O","T","E">>, href |-> "mote_archive"],
      [title |-> <<"m","o","t","e","_","l","e","v","e","l">>, href |-> "mote_level"],
      [title |-> <<"m","e","a","s","u","r","e","m","e","n","t">>, href |-> "influx"] }

RECURSIVE SeqsUpTo(_, _)
\* the sequences over S of length at most n
SeqsUpTo(S, n) ==
    IF n = 0 THEN { <<>> }
    ELSE LET shorter == SeqsUpTo(S, n - 1)
         IN  shorter \cup { Append(q, x) : q \in shorter, x \in S }

DiscoveryResponses ==
    { [status |-> st, child |-> ch] :
        st \in {200, 500},
        ch \in SeqsUpTo(ResourceDescriptors, MaxChildren) }

\* requests.Response.raise_for_status(): raises HTTPError for 4xx and 5xx
raise_for_status(status) == status >= 400 /\ status < 600

\* Entity.spawn_subclass: type(str(title), (cls,), {'server': server, 'link': link}).
\* Every call makes a new type object; tid is that object's identity.
spawn_subclass(title, link, server, tid) ==
    [name |-> title, link |-> link, server |-> server, tid |-> tid]

RECURSIVE spawn_loop(_, _, _)
\* the loop of _spawn_entities over response['_links']['child'], from index i
spawn_loop(children, i, ents) ==
    IF i > Len(children) THEN ents
    ELSE LET title == normalize_title(children[i].title)
             cls   == spawn_subclass(title, children[i].href, "self", i)
         IN  spawn_loop(children, i + 1,
                        [t \in DOMAIN ents \cup {title} |->
                            IF t = title THEN cls ELSE ents[t]])

\* Client._spawn_entities(insert): <<>> when _validate raises, else <<entities>>
spawn_entities(response, insert) ==
    IF raise_for_status(response.status) THEN <<>>
    ELSE << spawn_loop(response.child \o insert, 1, EmptyDict) >>

\* Client.__getattr__(attr): <<>> is AttributeError
Client_getattr(ents, attr) == IF attr \in DOMAIN ents THEN <<ents[attr]>> ELSE <<>>

\* The discovery response of the server the row operations run against
MoteDiscovery ==
    [status |-> 200, child |-> << [title |-> <<"m","o","t","e">>, href |-> "mote"] >>]

LookupNames == {Mote, MoteLevel, Measurement}

\* Client.__init__: discovery, then self.entities = self._spawn_entities(...)
Construct ==
    /\ entities = <<>>
    /\ resolved = <<>>
    /\ entities' = spawn_entities(discovery, extra_entities)
    /\ resolved' = << [attr |-> <<>>, cls |-> <<>>,
                       raised |-> entities' = <<>>] >>
    /\ UNCHANGED <<discovery, crudVars>>

\* client.<attr> on a constructed Client
Lookup ==
    /\ entities # <<>>
    /\ \E attr \in LookupNames :
          resolved' = << [attr |-> attr, cls |-> Client_getattr(entities[1], attr),
                          raised |-> Client_getattr(entities[1], attr) = <<>>] >>
    /\ UNCHANGED <<discovery, entities, crudVars>>

-----------------------------------------------------------------------------
(* The Eve server (environment): a row store behind HTTP.                  *)
(* A request is [method, route, json, headers]; a route is [link, id,      *)
(* query] with id = <<>> for the collection; a response is [status, json,  *)
(* body] where json says whether the text is a JSON document and body is   *)
(* the document.                                                           *)

Ids == 1..MaxRows

\* the body of an error response
ErrBody(status) == [_error |-> status]

ErrorResponse(status) == [status |-> status, json |-> TRUE, body |-> ErrBody(status)]

\* a row as the server sends it: its fields with _id and _etag
RowBody(rs, id) ==
    dict_update(rs[id][1].data, [_id |-> id, _etag |-> rs[id][1].etag])

HasRow(rs, link, id) ==
    /\ id \in DOMAIN rs
    /\ rs[id] # <<>>
    /\ rs[id][1].link = link

\* the row's fields satisfy the where= filter
Matches(data, filter) ==
    \A k \in DOMAIN filter : k \in DOMAIN data /\ data[k] = filter[k]

RECURSIVE ItemsFrom(_, _, _, _)
\* the _items of a collection response, in _id order
ItemsFrom(rs, link, filter, id) ==
    IF id > MaxRows THEN <<>>
    ELSE (IF HasRow(rs, link, id) /\ Matches(rs[id][1].data, filter)
          THEN << RowBody(rs, id) >> ELSE <<>>)
         \o ItemsFrom(rs, link, filter, id + 1)

\* the precondition of a write: "ok", or the status the server refuses it with
Precondition(rs, id, headers, ifm) ==
    IF "If-Match" \in DOMAIN headers
    THEN IF headers["If-Match"] = rs[id][1].etag THEN 0 ELSE 412
    ELSE IF ifm THEN 428 ELSE 0

Unchanged(resp, rs, nid, net) ==
    [resp |-> resp, rows |-> rs, nextId |-> nid, nextEtag |-> net]

\* what the server does with one request
Serve(req, rs, nid, net, ifm) ==
    LET link == req.route.link
        rid  == req.route.id
    IN
    CASE req.method = "GET" /\ rid = <<>> ->
            Unchanged([status |-> 200, json |-> TRUE,
                       body |-> [_items |->
                           ItemsFrom(rs, link,
                                     IF req.route.query # <<>> /\ req.route.query[1].param = "where"
                                     THEN req.route.query[1].value ELSE EmptyDict, 1)]],
                      rs, nid, net)
      [] req.method = "GET" /\ rid # <<>> ->
            IF HasRow(rs, link, rid[1])
            THEN Unchanged([status |-> 200, json |-> TRUE, body |-> RowBody(rs, rid[1])],
                           rs, nid, net)
            ELSE Unchanged(ErrorResponse(404), rs, nid, net)
      [] req.method = "POST" ->
            IF \E k \in DOMAIN req.json : k \in {"_id", "_etag"}
            THEN Unchanged(ErrorResponse(422), rs, nid, net)
            ELSE [resp |-> [status |-> 201, json |-> TRUE,
                            body |-> [_id |-> nid, _etag |-> net]],
                  rows |-> [rs EXCEPT ![nid] =
                               << [link |-> link, data |-> req.json, etag |-> net] >>],
                  nextId |-> nid + 1, nextEtag |-> net + 1]
      [] req.method = "PUT" ->
            IF ~HasRow(rs, link, rid[1])
            THEN Unchanged(ErrorResponse(404), rs, nid, net)
            ELSE IF Precondition(rs, rid[1], req.headers, ifm) # 0
            THEN Unchanged(ErrorResponse(Precondition(rs, rid[1], req.headers, ifm)),
                           rs, nid, net)
            ELSE [resp |-> [status |-> 200, json |-> TRUE,
                            body |-> [_id |-> rid[1], _etag |-> net]],
                  rows |-> [rs EXCEPT ![rid[1]] =
                               << [link |-> link, data |-> req.json, etag |-> net] >>],
                  nextId |-> nid, nextEtag |-> net + 1]
      [] req.method = "DELETE" ->
            IF ~HasRow(rs, link, rid[1])
            THEN Unchanged(ErrorResponse(404), rs, nid, net)
            ELSE IF Precondition(rs, rid[1], req.headers, ifm) # 0
            THEN Unchanged(ErrorResponse(Precondition(rs, rid[1], req.headers, ifm)),
                           rs, nid, net)
            ELSE [resp |-> [status |-> 204, json |-> FALSE, body |-> EmptyDict],
                  rows |-> [rs EXCEPT ![rid[1]] = <<>>],
                  nextId |-> nid, nextEtag |-> net]

\* how a request can fail without reaching the row store
Faults == {"none", "error"}

\* the server's answer: Serve, or a 500 that leaves the rows alone
Answer(req, fault, rs, nid, net, ifm) ==
    IF fault = "none" THEN Serve(req, rs, nid, net, ifm)
    ELSE Unchanged(ErrorResponse(500), rs, nid, net)

-----------------------------------------------------------------------------
(* Client: the verbs and the validate_and_jsonify decorator                *)

ItemRoute(link, id) == [link |-> link, id |-> <<id>>, query |-> <<>>]

QueryRoute(link, param, value) ==
    [link |-> link, id |-> <<>>, query |-> << [param |-> param, value |-> value] >>]

\* Client.get: self.session.get('/'.join((self.url, route)))
Client_get(route) ==
    [method |-> "GET", route |-> route, json |-> EmptyDict, headers |-> EmptyDict]

\* Client.post: self.session.post(..., json=json)
Client_post(route, json) ==
    [method |-> "POST", route |-> route, json |-> json, headers |-> EmptyDict]

\* Client.put as it would be without the precondition header
Client_put_unconditional(route, json, etag) ==
    [method |-> "PUT", route |-> route, json |-> json, headers |-> EmptyDict]

\* Client.put: the If-Match header is sent when etag is not None
Client_put(route, json, etag) ==
    [method |-> "PUT", route |-> route, json |-> json,
     headers |-> IF etag # <<>> THEN ("If-Match" :> etag[1]) ELSE EmptyDict]

\* Client.delete, its second request: conditional on etag when it is not None
Client_delete(route, etag) ==
    [method |-> "DELETE", route |-> route, json |-> EmptyDict,
     headers |-> IF etag # <<>> THEN ("If-Match" :> etag[1]) ELSE EmptyDict]

\* Client.delete, the Response it builds: the DELETE's status_code with the
\* GET's content
delete_response(response, r) ==
    [status |-> r.status, json |-> response.json, body |-> response.body]

\* validate_and_jsonify: raise_for_status(), then json.loads(text)
validate_and_jsonify(http_response) ==
    IF raise_for_status(http_response.status)
    THEN [exc |-> "HTTPError", body |-> EmptyDict]
    ELSE IF ~http_response.json
    THEN [exc |-> "ValueError", body |-> EmptyDict]
    ELSE [exc |-> "none", body |-> http_response.body]

-----------------------------------------------------------------------------
(* Entity: an instance is [cls, d] with d its __dict__                     *)

\* the names the class itself defines: found before __getattr__ is asked
ClassAttrs == {"link", "server"}

\* Entity.__setattr__ as it would be if every name went to the field mapping
Entity_setattr_into_fields(d, attr, val) ==
    IF "initialized" \in DOMAIN d
    THEN dict_set(d, "fields", dict_set(d["fields"], attr, val))
    ELSE dict_set(d, attr, val)

\* Entity.__setattr__
Entity_setattr(d, attr, val) ==
    IF "initialized" \in DOMAIN d /\ attr \in DOMAIN d["fields"]
    THEN dict_set(d, "fields", dict_set(d["fields"], attr, val))
    ELSE dict_set(d, attr, val)

\* Entity.__init__: self.fields = kwargs; self.initialized = True
Entity_init(kwargs) ==
    Entity_setattr(Entity_setattr(EmptyDict, "fields", kwargs), "initialized", TRUE)

\* reading instance.attr: the __dict__, then the class, then Entity.__getattr__
\* (self.fields[attr]); <<>> is AttributeError
Entity_getattr(cls, d, attr) ==
    IF attr \in DOMAIN d THEN << d[attr] >>
    ELSE IF attr \in ClassAttrs THEN << cls[attr] >>
    ELSE IF attr \in DOMAIN d["fields"] THEN << d["fields"][attr] >>
    ELSE <<>>

\* k.startswith('_'), over the keys of the model
startswith_underscore(k) == k \in {"_id", "_etag", "_error", "_items"}

\* Entity.regular_fields
regular_fields(fields) ==
    [k \in {x \in DOMAIN fields : ~startswith_underscore(x)} |-> fields[k]]

\* Entity.save as it would be with self.fields.get('_id'): the PUT goes to
\* link/None, an item the server does not have (id 0)
Entity_save_unkeyed(cls, d) ==
    << Client_put(ItemRoute(cls.link,
                            IF "_id" \in DOMAIN d["fields"] THEN d["fields"]["_id"] ELSE 0),
                  regular_fields(d["fields"]),
                  dict_get(d["fields"], "_etag")) >>

\* Entity.save: the PUT it hands to Client.put; <<>> when self.fields['_id']
\* raises KeyError
Entity_save(cls, d) ==
    IF "_id" \notin DOMAIN d["fields"] THEN <<>>
    ELSE << Client_put(ItemRoute(cls.link, d["fields"]["_id"]),
                       regular_fields(d["fields"]),
                       dict_get(d["fields"], "_etag")) >>

\* Entity.remove: the route and etag it hands to Client.delete; <<>> when
\* self.fields['_id'] raises KeyError
Entity_remove(cls, d) ==
    IF "_id" \notin DOMAIN d["fields"] THEN <<>>
    ELSE << [route |-> ItemRoute(cls.link, d["fields"]["_id"]),
             etag  |-> dict_get(d["fields"], "_etag")] >>

\* Entity.create: the POST of the whole field mapping
Entity_create(cls, d) == Client_post([link |-> cls.link, id |-> <<>>, query |-> <<>>],
                                     d["fields"])

\* Entity.get_by_id as it would be without the assert
Entity_get_by_id_unchecked(cls, id, options) ==
    << Client_get([link |-> cls.link, id |-> <<id>>,
                   query |-> IF options = <<>> THEN <<>>
                             ELSE << [param |-> "options", value |-> options[1]] >>]) >>

\* Entity.get_by_id: <<>> when the assert fails, else the GET
Entity_get_by_id(cls, id, options) ==
    IF cls.link = "measurement" THEN <<>>
    ELSE << Client_get([link |-> cls.link, id |-> <<id>>,
                        query |-> IF options = <<>> THEN <<>>
                                  ELSE << [param |-> "options", value |-> options[1]] >>]) >>

\* Entity.where: the GET of link?where=<json of kwargs>
Entity_where(cls, kwargs) == Client_get(QueryRoute(cls.link, "where", kwargs))

\* Entity.embedded: the GET of link?embedded=<json of kwargs>
Entity_embedded(cls, kwargs) == Client_get(QueryRoute(cls.link, "embedded", kwargs))

\* Entity.create as it would be without self.fields.update(response)
create_fields_discarding(fields, v) == fields

\* Entity.create, after the POST: self.fields.update(response) when
\* Client.post returned, the mapping as it was when it raised
create_fields(fields, v) ==
    IF v.exc = "none" THEN dict_update(fields, v.body) ELSE fields

\* Entity.save as it would be if it merged the response like create()
save_fields_refreshing(fields, v) ==
    IF v.exc = "none" THEN dict_update(fields, v.body) ELSE fields

\* Entity.save, after the PUT: the response is returned and self.fields is
\* not assigned
save_fields(fields, v) == fields

\* Entity.where as it would be if the request were part of the generator:
\* the call returns a generator whatever the request's outcome
query_result_lazy(cls, v) ==
    [exc |-> "none",
     gen |-> << [cls |-> cls,
                 items |-> IF v.exc = "none" THEN v.body["_items"] ELSE <<>>] >>]

\* Entity.where / Entity.embedded, after the GET: Client.get raises inside
\* the call; otherwise the call returns a generator over results['_items']
query_result(cls, v) ==
    IF v.exc # "none" THEN [exc |-> v.exc, gen |-> <<>>]
    ELSE [exc |-> "none", gen |-> << [cls |-> cls, items |-> v.body["_items"]] >>]

-----------------------------------------------------------------------------
(* The callers' inputs *)

\* keyword arguments of Entity(**kwargs)
Kwargs == { [a |-> 1, b |-> 2], [_id |-> 1, a |-> 2] }

\* instance.<attr> = val, for a field or a name that is no field
SetAttrInputs ==
    { [attr |-> "a", val |-> 2],
      [attr |-> "c", val |-> 9] }

\* instance.fields = mapping
FieldsInputs == { [b |-> 2] }

\* keyword arguments of where() and embedded()
Filters == { [a |-> 1] }

\* the options argument: None or a raw query string
Options == { <<>>, <<"max_results=1">> }

Classes == { entities[1][n] : n \in DOMAIN entities[1] }

-----------------------------------------------------------------------------
(* Specification *)

\* the record of a call: who made it, with what, how it ended (exc = "none":
\* it returned), the decoded body it returned, the requests it issued
Call(op, args, exc, body, reqs) ==
    [caller |-> "", op |-> op, args |-> args, exc |-> exc, body |-> body, reqs |-> reqs]

NoCall == Call("none", EmptyDict, "none", EmptyDict, <<>>)

Summary(call) == [caller |-> call.caller, op |-> call.op, exc |-> call.exc]

\* The server holds one row of the resource mote, and every caller holds the
\* instance Mote.get_by_id(1) returned.
SeedRows ==
    [i \in Ids |->
        IF i = 1 THEN << [link |-> "mote", data |-> [a |-> 1], etag |-> 1] >> ELSE <<>>]

Init ==
    /\ rows = SeedRows
    /\ nextId = 2
    /\ nextEtag = 2
    /\ if_match \in BOOLEAN
    /\ inst = [c \in Callers |->
                 << [cls |-> spawn_entities(MoteDiscovery, extra_entities)[1][Mote],
                     d |-> Entity_init(RowBody(SeedRows, 1))] >>]
    /\ gen = [c \in Callers |-> <<>>]
    /\ pend = [c \in Callers |-> <<>>]
    /\ last = NoCall
    /\ prev = Summary(NoCall)
    /\ nops = 0
    /\ discovery = MoteDiscovery
    /\ entities = spawn_entities(MoteDiscovery, extra_entities)
    /\ resolved = <<>>

Idle(c) == nops < MaxOps /\ pend[c] = <<>>

Returns(c, rec) ==
    /\ last' = [rec EXCEPT !.caller = c]
    /\ prev' = Summary(last)
    /\ nops' = nops + 1

ServerBecomes(ans) ==
    /\ rows' = ans.rows
    /\ nextId' = ans.nextId
    /\ nextEtag' = ans.nextEtag

ServerUnchanged == UNCHANGED <<rows, nextId, nextEtag>>

Sent(req, ans) == [method |-> req.method, status |-> ans.resp.status]

WithFields(e, fields) == << [cls |-> e.cls, d |-> dict_set(e.d, "fields", fields)] >>

\* e = SomeEntity(**kwargs)
New(c) ==
    /\ Idle(c)
    /\ \E cls \in Classes, kwargs \in Kwargs :
          inst' = [inst EXCEPT ![c] = << [cls |-> cls, d |-> Entity_init(kwargs)] >>]
    /\ Returns(c, Call("new", EmptyDict, "none", EmptyDict, <<>>))
    /\ ServerUnchanged
    /\ UNCHANGED <<if_match, gen, pend, discovery, entities, resolved>>

SetAttrTo(c, attr, val) ==
    /\ inst' = [inst EXCEPT ![c] =
                   << [cls |-> inst[c][1].cls,
                       d |-> Entity_setattr(inst[c][1].d, attr, val)] >>]
    /\ Returns(c, Call("setattr", [attr |-> attr, val |-> val], "none", EmptyDict, <<>>))

\* e.<attr> = val
SetAttr(c) ==
    /\ Idle(c)
    /\ inst[c] # <<>>
    /\ \/ \E in \in SetAttrInputs : SetAttrTo(c, in.attr, in.val)
       \/ \E m \in FieldsInputs : SetAttrTo(c, "fields", m)
    /\ ServerUnchanged
    /\ UNCHANGED <<if_match, gen, pend, discovery, entities, resolved>>

\* e.create()
Create(c) ==
    /\ Idle(c)
    /\ inst[c] # <<>>
    /\ nextId \in Ids
    /\ \E fault \in Faults :
          LET e   == inst[c][1]
              req == Entity_create(e.cls, e.d)
              ans == Answer(req, fault, rows, nextId, nextEtag, if_match)
              v   == validate_and_jsonify(ans.resp)
          IN  /\ ServerBecomes(ans)
              /\ inst' = [inst EXCEPT ![c] =
                            WithFields(e, create_fields(e.d["fields"], v))]
              /\ Returns(c, Call("create", [json |-> req.json], v.exc, v.body,
                                 << Sent(req, ans) >>))
    /\ UNCHANGED <<if_match, gen, pend, discovery, entities, resolved>>

\* e.save()
Save(c) ==
    /\ Idle(c)
    /\ inst[c] # <<>>
    /\ LET e == inst[c][1]
           call == Entity_save(e.cls, e.d)
       IN  IF call = <<>>
           THEN /\ Returns(c, Call("save", EmptyDict, "KeyError", EmptyDict, <<>>))
                /\ inst' = inst
                /\ ServerUnchanged
           ELSE \E fault \in Faults :
                   LET ans == Answer(call[1], fault, rows, nextId, nextEtag, if_match)
                       v   == validate_and_jsonify(ans.resp)
                   IN  /\ ServerBecomes(ans)
                       /\ inst' = [inst EXCEPT ![c] =
                                     WithFields(e, save_fields(e.d["fields"], v))]
                       /\ Returns(c, Call("save", [json |-> call[1].json], v.exc, v.body,
                                          << Sent(call[1], ans) >>))
    /\ UNCHANGED <<if_match, gen, pend, discovery, entities, resolved>>

\* e.remove(), up to and including the GET of Client.delete
RemoveGet(c) ==
    /\ Idle(c)
    /\ inst[c] # <<>>
    /\ LET e == inst[c][1]
           call == Entity_remove(e.cls, e.d)
       IN  IF call = <<>>
           THEN /\ Returns(c, Call("remove", EmptyDict, "KeyError", EmptyDict, <<>>))
                /\ pend' = pend
                /\ ServerUnchanged
           ELSE \E fault \in Faults :
                   LET req == Client_get(call[1].route)
                       ans == Answer(req, fault, rows, nextId, nextEtag, if_match)
                   IN  /\ ServerBecomes(ans)
                       /\ pend' = [pend EXCEPT ![c] =
                                     << [route |-> call[1].route, etag |-> call[1].etag,
                                         response |-> ans.resp] >>]
                       /\ Returns(c, Call("remove", EmptyDict, "pending", EmptyDict,
                                          << Sent(req, ans) >>))
    /\ UNCHANGED <<if_match, inst, gen, discovery, entities, resolved>>

\* e.remove(), from the DELETE of Client.delete to the return
RemoveDelete(c) ==
    /\ pend[c] # <<>>
    /\ \E fault \in Faults :
          LET p   == pend[c][1]
              req == Client_delete(p.route, p.etag)
              ans == Answer(req, fault, rows, nextId, nextEtag, if_match)
              v   == validate_and_jsonify(delete_response(p.response, ans.resp))
          IN  /\ ServerBecomes(ans)
              /\ last' = [Call("remove", EmptyDict, v.exc, v.body,
                               << [method |-> "GET", status |-> p.response.status],
                                  Sent(req, ans) >>)
                            EXCEPT !.caller = c]
    /\ prev' = Summary(last)
    /\ pend' = [pend EXCEPT ![c] = <<>>]
    /\ UNCHANGED <<if_match, inst, gen, nops, discovery, entities, resolved>>

\* e = SomeEntity.get_by_id(id, options)
GetById(c) ==
    /\ Idle(c)
    /\ \E cls \in Classes, id \in Ids, options \in Options :
          LET call == Entity_get_by_id(cls, id, options)
              args == [link |-> cls.link, id |-> id]
          IN  IF call = <<>>
              THEN /\ Returns(c, Call("get_by_id", args, "AssertionError", EmptyDict, <<>>))
                   /\ inst' = inst
                   /\ ServerUnchanged
              ELSE \E fault \in Faults :
                      LET ans == Answer(call[1], fault, rows, nextId, nextEtag, if_match)
                          v   == validate_and_jsonify(ans.resp)
                      IN  /\ ServerBecomes(ans)
                          /\ inst' = IF v.exc = "none"
                                     THEN [inst EXCEPT ![c] =
                                             << [cls |-> cls, d |-> Entity_init(v.body)] >>]
                                     ELSE inst
                          /\ Returns(c, Call("get_by_id", args, v.exc, v.body,
                                             << Sent(call[1], ans) >>))
    /\ UNCHANGED <<if_match, gen, pend, discovery, entities, resolved>>

Query(c, op, req, cls) ==
    \E fault \in Faults :
       LET ans == Answer(req, fault, rows, nextId, nextEtag, if_match)
           r   == query_result(cls, validate_and_jsonify(ans.resp))
       IN  /\ ServerBecomes(ans)
           /\ gen' = IF r.gen # <<>> THEN [gen EXCEPT ![c] = r.gen] ELSE gen
           /\ Returns(c, Call(op, [returned |-> r.gen # <<>>], r.exc, EmptyDict,
                              << Sent(req, ans) >>))

\* g = SomeEntity.where(**kwargs)
Where(c) ==
    /\ Idle(c)
    /\ \E cls \in Classes, kwargs \in Filters : Query(c, "where", Entity_where(cls, kwargs), cls)
    /\ UNCHANGED <<if_match, inst, pend, discovery, entities, resolved>>

\* g = SomeEntity.embedded(**kwargs)
Embedded(c) ==
    /\ Idle(c)
    /\ \E cls \in Classes, kwargs \in Filters :
          Query(c, "embedded", Entity_embedded(cls, kwargs), cls)
    /\ UNCHANGED <<if_match, inst, pend, discovery, entities, resolved>>

\* e = next(g): the generator expression (cls(**result) for result in items)
NextItem(c) ==
    /\ Idle(c)
    /\ gen[c] # <<>>
    /\ LET g == gen[c][1]
       IN  IF g.items = <<>>
           THEN /\ Returns(c, Call("next", EmptyDict, "StopIteration", EmptyDict, <<>>))
                /\ UNCHANGED <<inst, gen>>
           ELSE /\ inst' = [inst EXCEPT ![c] =
                              << [cls |-> g.cls, d |-> Entity_init(Head(g.items))] >>]
                /\ gen' = [gen EXCEPT ![c] = << [cls |-> g.cls, items |-> Tail(g.items)] >>]
                /\ Returns(c, Call("next", EmptyDict, "none", EmptyDict, <<>>))
    /\ ServerUnchanged
    /\ UNCHANGED <<if_match, pend, discovery, entities, resolved>>

Next ==
    \E c \in Callers :
        \/ New(c)
        \/ SetAttr(c)
        \/ Create(c)
        \/ Save(c)
        \/ RemoveGet(c)
        \/ RemoveDelete(c)
        \/ GetById(c)
        \/ Where(c)
        \/ Embedded(c)
        \/ NextItem(c)

Spec == Init /\ [][Next]_vars

\* Discovery: the Client is constructed against any discovery response
InitDiscovery ==
    /\ rows = [i \in Ids |-> <<>>]
    /\ nextId = 1
    /\ nextEtag = 1
    /\ if_match = FALSE
    /\ inst = [c \in Callers |-> <<>>]
    /\ gen = [c \in Callers |-> <<>>]
    /\ pend = [c \in Callers |-> <<>>]
    /\ last = NoCall
    /\ prev = Summary(NoCall)
    /\ nops = 0
    /\ discovery \in DiscoveryResponses
    /\ entities = <<>>
    /\ resolved = <<>>

NextDiscovery == Construct \/ Lookup

SpecDiscovery == InitDiscovery /\ [][NextDiscovery]_vars

-----------------------------------------------------------------------------
(* Properties *)

FieldsOf(c) == inst[c][1].d["fields"]

ClassOf(c) == inst[c][1].cls

Is2xx(status) == status >= 200 /\ status < 300

\* the step is a call of op by c that ran to its end (returned or raised)
CallStep(c, op) == nops' = nops + 1 /\ last'.caller = c /\ last'.op = op

\* the instance c holds carries _id and _etag, its row exists on the server,
\* and the row's _etag is no longer the instance's: the row was updated
\* after the instance obtained its _etag
Stale(c) ==
    /\ inst[c] # <<>>
    /\ {"_id", "_etag"} \subseteq DOMAIN FieldsOf(c)
    /\ HasRow(rows, ClassOf(c).link, FieldsOf(c)["_id"])
    /\ rows[FieldsOf(c)["_id"]][1].etag # FieldsOf(c)["_etag"]

\* C1: save() on an instance whose row was updated on the server after the
\* instance obtained its _etag raises an HTTP error and leaves the server's
\* rows exactly as the other writer stored them; the status is the
\* precondition's conflict status (412; 409 is allowed by the claim), or 500
\* when the server failed before it looked at the request.
C1_StaleSaveRaisesConflict ==
    [][\A c \in Callers :
          (Stale(c) /\ CallStep(c, "save")) =>
              /\ last'.exc = "HTTPError"
              /\ Len(last'.reqs) = 1
              /\ last'.reqs[1].method = "PUT"
              /\ last'.reqs[1].status \in {409, 412, 500}
              /\ rows' = rows]_vars

\* C1 witness: a caller's save was refused with 412 right after the other
\* caller's save of the same row succeeded
C1_Witness ==
    /\ last.op = "save"
    /\ last.exc = "HTTPError"
    /\ last.reqs = << [method |-> "PUT", status |-> 412] >>
    /\ Stale(last.caller)
    /\ prev.op = "save"
    /\ prev.exc = "none"
    /\ prev.caller # last.caller

\* C2: Client.delete raises an HTTP error, and returns no body, whenever its
\* GET or its DELETE returned a non-2xx status.
C2_DeleteRaisesWhenEitherRequestFails ==
    (/\ last.op = "remove"
     /\ Len(last.reqs) = 2
     /\ (~Is2xx(last.reqs[1].status) \/ ~Is2xx(last.reqs[2].status)))
    => (last.exc = "HTTPError" /\ last.body = EmptyDict)

\* C3 as stated: when the request behind where() or embedded() fails, the
\* call returns the lazy sequence without raising.
C3_FailedQueryReturnsSequence ==
    (/\ last.op \in {"where", "embedded"}
     /\ ~Is2xx(last.reqs[1].status))
    => (last.exc = "none" /\ last.args.returned)

\* C3 as amended: when the request behind where() or embedded() fails, the
\* call itself raises the HTTP error and returns no sequence (the caller's
\* generator is not replaced); iterating a returned sequence issues no
\* request and raises nothing but StopIteration.
C3_FailedQueryRaisesAtCall ==
    [][\A c \in Callers :
          /\ ((CallStep(c, "where") \/ CallStep(c, "embedded"))
                 /\ ~Is2xx(last'.reqs[1].status)) =>
                 /\ last'.exc = "HTTPError"
                 /\ ~last'.args.returned
                 /\ gen' = gen
          /\ CallStep(c, "next") =>
                 /\ last'.exc \in {"none", "StopIteration"}
                 /\ last'.reqs = <<>>
                 /\ rows' = rows]_vars

\* C3 witness: a where() call raised the HTTP error of its failed request
C3_Witness ==
    /\ last.op = "where"
    /\ last.exc = "HTTPError"
    /\ last.reqs = << [method |-> "GET", status |-> 500] >>
    /\ ~last.args.returned

\* C4: save() leaves the instance's field mapping, _etag included, as it
\* was; after a successful save() of an instance carrying an _etag the
\* instance's _etag is no longer the row's; and a second save() right after
\* a successful one, on an instance carrying an _etag, raises an HTTP error
\* with the conflict status (or 500 when the server failed).
C4_SaveKeepsLocalEtag ==
    [][\A c \in Callers :
          CallStep(c, "save") =>
              /\ inst' = inst
              /\ ("_etag" \in DOMAIN FieldsOf(c) /\ last'.exc = "none") => Stale(c)'
              /\ (/\ last.op = "save"
                  /\ last.caller = c
                  /\ last.exc = "none"
                  /\ "_etag" \in DOMAIN FieldsOf(c)) =>
                     /\ last'.exc = "HTTPError"
                     /\ last'.reqs[1].status \in {409, 412, 500}
                     /\ rows' = rows]_vars

\* C4 witness: the second of two consecutive save() calls of one caller was
\* refused with 412 while the instance still carries the _etag it started with
C4_Witness ==
    /\ last.op = "save"
    /\ prev.op = "save"
    /\ prev.caller = last.caller
    /\ prev.exc = "none"
    /\ last.exc = "HTTPError"
    /\ last.reqs = << [method |-> "PUT", status |-> 412] >>
    /\ FieldsOf(last.caller)["_etag"] = 1
    /\ rows[1][1].etag = 2

\* the discovered resources merged with the injected pseudo-resource
Merged == discovery.child \o extra_entities

Resolve(i) == Client_getattr(entities[1], normalize_title(Merged[i].title))

\* C5: after construction every discovered resource (and Measurement) is an
\* attribute of the Client under its normalized name, bound to the href it
\* was derived from, and of a type distinct from every other resource's.
C5_EveryResourceReachable ==
    entities # <<>> =>
        \A i \in 1..Len(Merged) :
            /\ Resolve(i) # <<>>
            /\ Resolve(i)[1].link = Merged[i].href
            /\ \A j \in 1..Len(Merged) : j # i => Resolve(j)[1].tid # Resolve(i)[1].tid

NoReservedKeys(fields) == \A k \in DOMAIN fields : ~startswith_underscore(k)

\* create() merged the response into the mapping, or failed and left it
CreateMerges(c) ==
    CallStep(c, "create") =>
        IF last'.exc = "none"
        THEN /\ DOMAIN FieldsOf(c)' = DOMAIN FieldsOf(c) \cup DOMAIN last'.body
             /\ \A k \in DOMAIN last'.body : FieldsOf(c)'[k] = last'.body[k]
             /\ \A k \in DOMAIN FieldsOf(c) \ DOMAIN last'.body :
                   FieldsOf(c)'[k] = FieldsOf(c)[k]
        ELSE inst' = inst

\* the step is get_by_id(returned _id) on the instance's own class, right
\* after c's create() of a mapping without reserved keys succeeded, and the
\* server did not fail
GetByIdAfterCreate(c) ==
    /\ CallStep(c, "get_by_id")
    /\ last.op = "create"
    /\ last.caller = c
    /\ last.exc = "none"
    /\ NoReservedKeys(last.args.json)
    /\ last'.args.id = last.body["_id"]
    /\ last'.args.link = ClassOf(c).link
    /\ ~(last'.reqs # <<>> /\ last'.reqs[1].status = 500)

RoundTrips(c) ==
    /\ last'.exc = "none"
    /\ regular_fields(FieldsOf(c)') = last.args.json

\* C6 as stated: create() merges the response in place (and leaves the
\* mapping alone when it fails), and a following get_by_id(returned _id)
\* yields an instance whose regular fields are the fields sent.
C6_CreateThenGetByIdRoundTrips ==
    [][\A c \in Callers :
          /\ CreateMerges(c)
          /\ GetByIdAfterCreate(c) => RoundTrips(c)]_vars

\* C6 as amended: the same, for every variant but the Measurement
\* pseudo-resource, whose get_by_id raises whatever the id.
C6_CreateThenGetByIdRoundTripsButMeasurement ==
    [][\A c \in Callers :
          /\ CreateMerges(c)
          /\ (GetByIdAfterCreate(c) /\ ClassOf(c).link # "measurement") => RoundTrips(c)]_vars

\* C6 witness: get_by_id(2) right after the caller's create() returned _id 2
\* yielded the fields sent
C6_Witness ==
    /\ last.op = "get_by_id"
    /\ last.exc = "none"
    /\ last.args.id = 2
    /\ prev.op = "create"
    /\ prev.exc = "none"
    /\ prev.caller = last.caller
    /\ regular_fields(FieldsOf(last.caller)) = [a |-> 1, b |-> 2]
    /\ FieldsOf(last.caller)["_id"] = 2

\* the names set on the instance that are not keys of its field mapping
PlainAttrs(c) == DOMAIN inst[c][1].d \ ({"fields", "initialized"} \cup DOMAIN FieldsOf(c))

\* assigning a key of the mapping changes that entry and no other
AssignsField(c) ==
    /\ DOMAIN FieldsOf(c)' = DOMAIN FieldsOf(c)
    /\ FieldsOf(c)'[last'.args.attr] = last'.args.val
    /\ \A k \in DOMAIN FieldsOf(c) \ {last'.args.attr} : FieldsOf(c)'[k] = FieldsOf(c)[k]

\* assigning another name leaves the mapping alone and can be read back
AssignsPlainAttr(c) ==
    /\ FieldsOf(c)' = FieldsOf(c)
    /\ Entity_getattr(ClassOf(c)', inst'[c][1].d, last'.args.attr) = << last'.args.val >>
    /\ last'.args.attr \notin DOMAIN regular_fields(FieldsOf(c)')

\* the payload of save() and create() holds no name that was set on the
\* instance without being a key of the mapping
PayloadHasNoPlainAttr(c) ==
    ((CallStep(c, "save") \/ CallStep(c, "create")) /\ last'.reqs # <<>>) =>
        \A n \in PlainAttrs(c) : n \notin DOMAIN last'.args.json

\* C7 as stated: assigning a key of the mapping changes only that entry;
\* assigning any other name leaves the whole mapping unchanged, is readable
\* back, and never reaches regular_fields() or a later payload.
C7_SetAttrOfOtherNameKeepsMapping ==
    [][\A c \in Callers :
          /\ CallStep(c, "setattr") =>
                IF last'.args.attr \in DOMAIN FieldsOf(c)
                THEN AssignsField(c)
                ELSE AssignsPlainAttr(c)
          /\ PayloadHasNoPlainAttr(c)]_vars

\* C7 as amended: the same, except for the name fields itself: assigning
\* instance.fields replaces the whole mapping by the value assigned.
C7_SetAttrOfOtherNameButFieldsKeepsMapping ==
    [][\A c \in Callers :
          /\ CallStep(c, "setattr") =>
                IF last'.args.attr \in DOMAIN FieldsOf(c)
                THEN AssignsField(c)
                ELSE IF last'.args.attr = "fields"
                THEN FieldsOf(c)' = last'.args.val
                ELSE AssignsPlainAttr(c)
          /\ PayloadHasNoPlainAttr(c)]_vars

\* C7 witness: after instance.c = 9, a save() sent a payload without c while
\* c reads back as 9
C7_Witness ==
    /\ last.op = "save"
    /\ last.reqs # <<>>
    /\ prev.op = "setattr"
    /\ prev.caller = last.caller
    /\ "c" \in DOMAIN inst[last.caller][1].d
    /\ Entity_getattr(ClassOf(last.caller), inst[last.caller][1].d, "c") = <<9>>
    /\ "c" \notin DOMAIN last.args.json
    /\ "a" \in DOMAIN last.args.json

\* C8: get_by_id on the Measurement variant (link 'measurement') fails, for
\* every id and options value, and the call issued no HTTP request.
C8_MeasurementGetByIdFails ==
    (last.op = "get_by_id" /\ last.args.link = "measurement") =>
        (last.exc = "AssertionError" /\ last.reqs = <<>>)

\* C8 witness: Measurement.get_by_id(2) failed its assertion
C8_Witness ==
    /\ last.op = "get_by_id"
    /\ last.args = [link |-> "measurement", id |-> 2]
    /\ last.exc = "AssertionError"

\* C9: save() and remove() on an instance whose mapping has no _id raise
\* KeyError without any HTTP request and leave the server's rows, the
\* instance and the pending deletes as they were.
C9_NoIdRaisesKeyError ==
    [][\A c \in Callers :
          (/\ CallStep(c, "save") \/ CallStep(c, "remove")
           /\ inst[c] # <<>>
           /\ "_id" \notin DOMAIN FieldsOf(c)) =>
              /\ last'.exc = "KeyError"
              /\ last'.reqs = <<>>
              /\ UNCHANGED <<rows, nextId, nextEtag, inst, pend>>]_vars

\* C9 witness: a caller's save() and then its remove() both raised KeyError
\* on an instance without _id
C9_Witness ==
    /\ last.op = "remove"
    /\ last.exc = "KeyError"
    /\ prev.op = "save"
    /\ prev.exc = "KeyError"
    /\ prev.caller = last.caller
    /\ "_id" \notin DOMAIN FieldsOf(last.caller)
    /\ rows = SeedRows

\* C10: when remove() succeeds after a successful GET, the body it returns
\* is the row as it was when the server deleted it, and the status it
\* reports is the DELETE's.
C10_RemoveReturnsRowAsDeleted ==
    [][\A c \in Callers :
          (/\ pend[c] # <<>>
           /\ pend'[c] = <<>>
           /\ last'.caller = c
           /\ last'.exc = "none"
           /\ Is2xx(pend[c][1].response.status)) =>
              /\ last'.reqs[2].method = "DELETE"
              /\ Is2xx(last'.reqs[2].status)
              /\ last'.body = RowBody(rows, pend[c][1].route.id[1])]_vars

=============================================================================
